---- MODULE Spec2Model ----
(***************************************************************************)
(* Model of the OpenXR loader's RuntimeInterface                           *)
(* (src/src/loader/runtime_interface.cpp): the single-active-runtime       *)
(* lifecycle, the negotiation handshake, the dispatch-table cache, the     *)
(* debug-messenger registry and the extension-property merge.              *)
(***************************************************************************)
EXTENDS Integers, Sequences, FiniteSets, TLC

\* ------------------------------------------------------------------ bounds
MaxCandidates == 2
MaxHandles == 2
MaxMessengers == 1
MaxExt == 2
MaxApiMajor == 2

\* ------------------------------------------------------- program constants
XR_NULL_HANDLE == 0
XR_CURRENT_LOADER_RUNTIME_VERSION == 1
XR_CURRENT_API_MAJOR == 1

XR_SUCCESS == "XR_SUCCESS"
XR_ERROR_VALIDATION_FAILURE == "XR_ERROR_VALIDATION_FAILURE"
XR_ERROR_RUNTIME_FAILURE == "XR_ERROR_RUNTIME_FAILURE"
XR_ERROR_API_VERSION_UNSUPPORTED == "XR_ERROR_API_VERSION_UNSUPPORTED"
XR_ERROR_INITIALIZATION_FAILED == "XR_ERROR_INITIALIZATION_FAILED"
XR_ERROR_INSTANCE_LOST == "XR_ERROR_INSTANCE_LOST"
XR_ERROR_FILE_ACCESS_ERROR == "XR_ERROR_FILE_ACCESS_ERROR"
XR_ERROR_FILE_CONTENTS_INVALID == "XR_ERROR_FILE_CONTENTS_INVALID"

XR_SUCCEEDED(res) == res = XR_SUCCESS
XR_FAILED(res) == res # XR_SUCCESS

\* ------------------------------------------------------------------- state
VARIABLES
    XR_KHR_LOADER_INIT_SUPPORT, \* build flag: the platform needs xrInitializeLoaderKHR
    loader_init_data,           \* LoaderInitData::_initialized
    instance,                   \* GetInstance(): <<>> (nullptr) or <<the RuntimeInterface>>
    open_libs,                  \* library handles LoaderPlatformLibraryOpen returned and nobody closed
    rt_instances,               \* XrInstance handles that are live inside the bound runtime
    op,                         \* the call that ran last, with its inputs
    ret,                        \* what that call returned
    log,                        \* what that call did to its collaborators, in order
    live,                       \* handles a successful CreateInstance returned, not destroyed since
    forgotten,                  \* messengers passed to ForgetDebugMessenger and not tracked since
    tracked,                    \* messenger -> instance of its last TrackDebugMessenger, none once forgotten
    crashed,                    \* the process called through a pointer nobody set
    threads,                    \* per thread: where it is in its call, the call's locals, the handles it owns
    dispatch_table_mutex,       \* RuntimeInterface::_dispatch_table_mutex: the thread that holds it
    messenger_to_instance_mutex, \* RuntimeInterface::_messenger_to_instance_mutex: the thread that holds it
    ext_in,                     \* extension merge: the caller's candidate list
    ext_rt,                     \* extension merge: the list the runtime reports
    ext_out,                    \* extension merge: the merged list
    ext_done                    \* extension merge: the merge has run

vars == <<XR_KHR_LOADER_INIT_SUPPORT, loader_init_data, instance, open_libs, rt_instances,
          op, ret, log, live, forgotten, tracked, crashed, ext_in, ext_rt, ext_out, ext_done,
          threads, dispatch_table_mutex, messenger_to_instance_mutex>>

loaderVars == <<XR_KHR_LOADER_INIT_SUPPORT, loader_init_data, instance, open_libs, rt_instances,
                op, ret, log, live, forgotten, tracked, crashed>>

mergeVars == <<ext_in, ext_rt, ext_out, ext_done>>

threadVars == <<threads, dispatch_table_mutex, messenger_to_instance_mutex>>

\* ----------------------------------------------------------------- helpers
Handles == 1..MaxHandles
Messengers == 0..MaxMessengers

SeqsUpTo(S, n) == UNION {[1..k -> S] : k \in 0..n}

Ev(e, a, r) == [ev |-> e, arg |-> a, res |-> r]

Count(s, e) == Cardinality({k \in DOMAIN s : s[k].ev = e})

CountOf(s, e, a) == Cardinality({k \in DOMAIN s : s[k].ev = e /\ s[k].arg = a})

Positions(s, e, a) == {k \in DOMAIN s : s[k].ev = e /\ s[k].arg = a}

RECURSIVE SetToSeq(_)
SetToSeq(S) ==
    IF S = {} THEN <<>>
    ELSE LET m == CHOOSE x \in S : \A y \in S : x <= y
         IN <<m>> \o SetToSeq(S \ {m})

NoOp ==
    [name |-> "", files |-> <<>>, find_res |-> XR_SUCCESS, had_instance |-> FALSE,
     inst |-> XR_NULL_HANDLE, messenger |-> XR_NULL_HANDLE, rt_res |-> XR_SUCCESS,
     populate_ok |-> TRUE, resolved |-> TRUE, valid |-> TRUE, extension_name |-> ""]

NoRet == [result |-> XR_SUCCESS, inst |-> XR_NULL_HANDLE, table |-> <<>>, found |-> FALSE]

\* ------------------------------------------------------------- threads
Threads == {"t1", "t2"}

\* The holder of a mutex nobody holds.
NoThread == "none"

\* A thread outside every call: pc is its place in a call, inst and messenger
\* are the call's arguments and locals, owned the handles CreateInstance
\* returned to it that it has not passed to DestroyInstance, table the
\* pointer GetDispatchTable returned to it (<<>> is none), and released says
\* that the table it points to has been destroyed since.
IdleThread ==
    [pc |-> "idle", inst |-> XR_NULL_HANDLE, messenger |-> XR_NULL_HANDLE, owned |-> {},
     table |-> <<>>, released |-> FALSE]

\* ----------------------------------------------------- extension records
ExtNames == {"A", "B", "C"}
ExtVersions == {1, 2}
ExtProps == [extensionName : ExtNames, extensionVersion : ExtVersions]

\* ------------------------------------------- candidate runtimes (manifests)
\* What one manifest's library does when the loader touches it.
ApiVersions == [major : 0..MaxApiMajor, minor : 0..1]

RuntimeInfos ==
    [getInstanceProcAddr : BOOLEAN,
     runtimeInterfaceVersion : 0..(XR_CURRENT_LOADER_RUNTIME_VERSION + 1),
     runtimeApiVersion : ApiVersions]

GoodInfo ==
    [getInstanceProcAddr |-> TRUE, runtimeInterfaceVersion |-> 1,
     runtimeApiVersion |-> [major |-> XR_CURRENT_API_MAJOR, minor |-> 0]]

Candidate(open, init, has_neg, neg_res, info, exts) ==
    [open |-> open, initialize |-> init, has_negotiate |-> has_neg,
     negotiate_res |-> neg_res, runtime_info |-> info, exts |-> exts]

\* The candidates of the lifecycle specification: one per way a candidate can
\* fail, and runtimes that negotiate successfully.
Candidates ==
    { Candidate(FALSE, "absent", TRUE, XR_SUCCESS, GoodInfo, <<>>),
      Candidate(TRUE, XR_ERROR_INITIALIZATION_FAILED, TRUE, XR_SUCCESS, GoodInfo, <<>>),
      Candidate(TRUE, "absent", FALSE, XR_SUCCESS, GoodInfo, <<>>),
      Candidate(TRUE, "absent", TRUE, XR_ERROR_API_VERSION_UNSUPPORTED, GoodInfo, <<>>),
      Candidate(TRUE, "absent", TRUE, XR_SUCCESS,
                [GoodInfo EXCEPT !.getInstanceProcAddr = FALSE], <<>>),
      Candidate(TRUE, XR_SUCCESS, TRUE, XR_SUCCESS, GoodInfo, <<>>),
      Candidate(TRUE, "absent", TRUE, XR_SUCCESS, GoodInfo,
                <<[extensionName |-> "A", extensionVersion |-> 1]>>) }

\* The candidates of the negotiation specification: every response a runtime
\* can return with a success code, and the candidates that never respond.
GateCandidates ==
    { Candidate(TRUE, "absent", TRUE, XR_SUCCESS, info, <<>>) : info \in RuntimeInfos }
    \cup { Candidate(FALSE, "absent", TRUE, XR_SUCCESS, GoodInfo, <<>>),
           Candidate(TRUE, "absent", FALSE, XR_SUCCESS, GoodInfo, <<>>),
           Candidate(TRUE, "absent", TRUE, XR_ERROR_API_VERSION_UNSUPPORTED, GoodInfo, <<>>) }

ManifestLists == SeqsUpTo(Candidates, MaxCandidates)

\* The lists of the cache specification: no candidate, or one that either
\* fails to open or binds.
CacheLists ==
    {<<>>} \cup {<<c>> : c \in {d \in Candidates : ~d.open \/ d.initialize = XR_SUCCESS}}

\* The candidates of the extension specification: a library that does not
\* open, and runtimes that bind and report no, one or two extensions.
ExtCandidates ==
    { Candidate(FALSE, "absent", TRUE, XR_SUCCESS, GoodInfo, <<>>),
      Candidate(TRUE, XR_SUCCESS, TRUE, XR_SUCCESS, GoodInfo, <<>>),
      Candidate(TRUE, XR_SUCCESS, TRUE, XR_SUCCESS, GoodInfo,
                <<[extensionName |-> "A", extensionVersion |-> 1]>>),
      Candidate(TRUE, XR_SUCCESS, TRUE, XR_SUCCESS, GoodInfo,
                <<[extensionName |-> "A", extensionVersion |-> 1],
                  [extensionName |-> "B", extensionVersion |-> 2]>>) }

ExtLists == SeqsUpTo(ExtCandidates, MaxCandidates)

\* The lists of the negotiation specification: one such candidate alone, or
\* before or after a runtime that binds.
GateLists ==
    LET good == Candidate(TRUE, XR_SUCCESS, TRUE, XR_SUCCESS, GoodInfo, <<>>)
    IN {<<>>} \cup {<<c>> : c \in GateCandidates}
              \cup {<<good, c>> : c \in GateCandidates}
              \cup {<<c, good>> : c \in GateCandidates}

\* -------------------------------------------------- version accessors
XR_VERSION_MAJOR(v) == v.major
XR_VERSION_MINOR(v) == v.minor


\* --------------------------------------------------- the RuntimeInterface
EmptyMap == [h \in {} |-> 0]

\* RuntimeInterface::RuntimeInterface: the two constructor arguments are kept,
\* every container starts empty.
NewRuntimeInterface(runtime_library, get_instance_proc_addr) ==
    [_runtime_library |-> runtime_library,
     _get_instance_proc_addr |-> get_instance_proc_addr,
     _supported_extensions |-> <<>>,
     _dispatch_table_map |-> EmptyMap,
     _messenger_to_instance_map |-> EmptyMap]

\* ~RuntimeInterface with the two steps swapped: the library is closed while
\* the dispatch tables still exist.
DestroyRuntimeInterfaceCloseFirst(st) ==
    LET old == st.instance[1]
        keys == SetToSeq(DOMAIN old._dispatch_table_map)
    IN [st EXCEPT
          !.instance = <<>>,
          !.log = @ \o <<Ev("LibraryClose", old._runtime_library, "")>>
                    \o [k \in 1..Len(keys) |-> Ev("table_release", keys[k], "")],
          !.open_libs = @ \ {old._runtime_library},
          !.rt_instances = {}]

\* RuntimeInterface::~RuntimeInterface on the object st.instance owns: the
\* dispatch tables are released, then the library is closed.  The runtime's
\* own instances go away with its library.
DestroyRuntimeInterface(st) ==
    LET old == st.instance[1]
        keys == SetToSeq(DOMAIN old._dispatch_table_map)
    IN [st EXCEPT
          !.instance = <<>>,
          !.log = @ \o [k \in 1..Len(keys) |-> Ev("table_release", keys[k], "")]
                    \o <<Ev("LibraryClose", old._runtime_library, "")>>,
          !.open_libs = @ \ {old._runtime_library},
          !.rt_instances = {}]

\* reset(p) that drops the object it owned without destroying it.
ResetInstanceLeak(st, p) ==
    [st EXCEPT !.instance = p]

\* GetInstance().reset(p): the pointer takes the new object, then the object it
\* owned before (if any) is destroyed.
ResetInstance(st, p) ==
    IF st.instance = <<>>
    THEN [st EXCEPT !.instance = p]
    ELSE [DestroyRuntimeInterface(st) EXCEPT !.instance = p]

\* ------------------------------------------------------ extension merge
\* The inner loop of GetInstanceExtensionProperties: the first of the
\* props_count original entries that carries the name, 0 when there is none.
RECURSIVE FindProp(_, _, _, _)
FindProp(extension_properties, props_count, name, prop) ==
    IF prop > props_count THEN 0
    ELSE IF extension_properties[prop].extensionName = name THEN prop
    ELSE FindProp(extension_properties, props_count, name, prop + 1)

\* The outer loop with the version overwrite left out: a name the candidate
\* list carries keeps the caller's version.
RECURSIVE MergeFromNoOverwrite(_, _, _, _)
MergeFromNoOverwrite(extension_properties, runtime_extension_properties, props_count, ext) ==
    IF ext > Len(runtime_extension_properties) THEN extension_properties
    ELSE LET rt == runtime_extension_properties[ext]
             prop == FindProp(extension_properties, props_count, rt.extensionName, 1)
         IN MergeFromNoOverwrite(IF prop # 0
                                 THEN extension_properties
                                 ELSE Append(extension_properties, rt),
                                 runtime_extension_properties, props_count, ext + 1)

\* The outer loop, from runtime entry number ext on.
RECURSIVE MergeFrom(_, _, _, _)
MergeFrom(extension_properties, runtime_extension_properties, props_count, ext) ==
    IF ext > Len(runtime_extension_properties) THEN extension_properties
    ELSE LET rt == runtime_extension_properties[ext]
             prop == FindProp(extension_properties, props_count, rt.extensionName, 1)
         IN MergeFrom(IF prop # 0
                      THEN [extension_properties EXCEPT ![prop].extensionVersion = rt.extensionVersion]
                      ELSE Append(extension_properties, rt),
                      runtime_extension_properties, props_count, ext + 1)

GetInstanceExtensionProperties(extension_properties, runtime_extension_properties) ==
    MergeFrom(extension_properties, runtime_extension_properties, Len(extension_properties), 1)

\* ------------------------------------------------------------ negotiation
\* The validation with the API version test left out.
ValidateNegotiationNoApiTest(res, runtime_info) ==
    IF XR_SUCCEEDED(res)
    THEN IF ~runtime_info.getInstanceProcAddr
         THEN XR_ERROR_FILE_CONTENTS_INVALID
         ELSE IF 0 >= runtime_info.runtimeInterfaceVersion
                 \/ XR_CURRENT_LOADER_RUNTIME_VERSION < runtime_info.runtimeInterfaceVersion
         THEN XR_ERROR_FILE_CONTENTS_INVALID
         ELSE res
    ELSE res

\* The result of a candidate's negotiation after the loader has looked at the
\* response: a success code survives only a usable response.
ValidateNegotiation(res, runtime_info) ==
    IF XR_SUCCEEDED(res)
    THEN LET runtime_major == XR_VERSION_MAJOR(runtime_info.runtimeApiVersion)
             runtime_minor == XR_VERSION_MINOR(runtime_info.runtimeApiVersion)
             loader_major == XR_CURRENT_API_MAJOR
         IN IF ~runtime_info.getInstanceProcAddr
            THEN XR_ERROR_FILE_CONTENTS_INVALID
            ELSE IF 0 >= runtime_info.runtimeInterfaceVersion
                    \/ XR_CURRENT_LOADER_RUNTIME_VERSION < runtime_info.runtimeInterfaceVersion
            THEN XR_ERROR_FILE_CONTENTS_INVALID
            ELSE IF runtime_major # loader_major \/ (runtime_major = 0 /\ runtime_minor = 0)
            THEN XR_ERROR_FILE_CONTENTS_INVALID
            ELSE res
    ELSE res

\* One candidate of the scan.  st carries the scan's locals (any_loaded,
\* last_error) and the process state the candidate may change; i is the
\* position of the manifest, which also names the library handle it yields.
TryLoadingSingleRuntime(st, i, manifest_file) ==
    IF ~manifest_file.open
    THEN [st EXCEPT
            !.last_error = IF ~st.any_loaded THEN XR_ERROR_INSTANCE_LOST ELSE @,
            !.log = @ \o <<Ev("LibraryOpen", i, "null"), Ev("skip", i, "open")>>]
    ELSE LET opened == [st EXCEPT !.open_libs = @ \cup {i},
                                  !.log = Append(@, Ev("LibraryOpen", i, "ok"))]
         IN IF XR_KHR_LOADER_INIT_SUPPORT /\ manifest_file.initialize # "absent"
               /\ ~XR_SUCCEEDED(manifest_file.initialize)
            THEN [opened EXCEPT
                    !.last_error = manifest_file.initialize,
                    !.open_libs = @ \ {i},
                    !.log = @ \o <<Ev("xrInitializeLoaderKHR", i, manifest_file.initialize),
                                   Ev("skip", i, manifest_file.initialize),
                                   Ev("LibraryClose", i, "")>>]
            ELSE LET inited == IF XR_KHR_LOADER_INIT_SUPPORT /\ manifest_file.initialize # "absent"
                               THEN [opened EXCEPT !.log = Append(@, Ev("xrInitializeLoaderKHR", i, XR_SUCCESS))]
                               ELSE opened
                     negotiated == IF manifest_file.has_negotiate
                                   THEN [inited EXCEPT !.log = Append(@, Ev("negotiate", i, manifest_file.negotiate_res))]
                                   ELSE inited
                     res == ValidateNegotiation(
                                IF manifest_file.has_negotiate THEN manifest_file.negotiate_res
                                ELSE XR_ERROR_RUNTIME_FAILURE,
                                manifest_file.runtime_info)
                 IN IF XR_FAILED(res)
                    THEN [negotiated EXCEPT
                            !.last_error = IF ~st.any_loaded THEN res ELSE @,
                            !.open_libs = @ \ {i},
                            !.log = @ \o <<Ev("skip", i, res), Ev("LibraryClose", i, "")>>]
                    ELSE LET made == [negotiated EXCEPT !.log = Append(@, Ev("new RuntimeInterface", i, ""))]
                             bound == ResetInstance(made, <<NewRuntimeInterface(i, i)>>)
                             extension_properties ==
                                 GetInstanceExtensionProperties(<<>>, manifest_file.exts)
                             supported_extensions ==
                                 [k \in 1..Len(extension_properties) |->
                                    extension_properties[k].extensionName]
                         IN [bound EXCEPT
                               !.instance[1]._supported_extensions = supported_extensions,
                               !.any_loaded = TRUE,
                               !.last_error = XR_SUCCESS]

\* The loop of LoadRuntime over the manifest files, from position i on.
RECURSIVE ScanFrom(_, _, _)
ScanFrom(st, runtime_manifest_files, i) ==
    IF i > Len(runtime_manifest_files) THEN st
    ELSE ScanFrom(TryLoadingSingleRuntime(st, i, runtime_manifest_files[i]),
                  runtime_manifest_files, i + 1)

\* What LoadRuntime leaves behind when it finds no RuntimeInterface bound.
LoadRuntimeScan(runtime_manifest_files, find_res) ==
    LET st0 == [instance |-> instance, open_libs |-> open_libs, rt_instances |-> rt_instances,
                any_loaded |-> FALSE, last_error |-> find_res,
                log |-> <<Ev("FindManifestFiles", 0, find_res)>>]
        st1 == IF XR_FAILED(st0.last_error)
               THEN [st0 EXCEPT !.last_error = XR_ERROR_FILE_ACCESS_ERROR]
               ELSE ScanFrom(st0, runtime_manifest_files, 1)
    IN IF ~st1.any_loaded
       THEN [st1 EXCEPT !.last_error = XR_ERROR_INSTANCE_LOST]
       ELSE st1

\* ---------------------------------------------------------------- actions
LoadRuntimeFrom(lists) ==
    /\ ~crashed
    /\ UNCHANGED crashed
    /\ IF instance # <<>>
       THEN /\ op' = [NoOp EXCEPT !.name = "LoadRuntime", !.had_instance = TRUE]
            /\ ret' = [NoRet EXCEPT !.result = XR_SUCCESS]
            /\ log' = <<>>
            /\ UNCHANGED <<instance, open_libs, rt_instances>>
       ELSE IF XR_KHR_LOADER_INIT_SUPPORT /\ ~loader_init_data
       THEN /\ op' = [NoOp EXCEPT !.name = "LoadRuntime"]
            /\ ret' = [NoRet EXCEPT !.result = XR_ERROR_INITIALIZATION_FAILED]
            /\ log' = <<>>
            /\ UNCHANGED <<instance, open_libs, rt_instances>>
       ELSE \E runtime_manifest_files \in lists,
               find_res \in {XR_SUCCESS, XR_ERROR_RUNTIME_FAILURE} :
               \* a failed enumeration hands over no list the loader looks at
               /\ XR_FAILED(find_res) => runtime_manifest_files = <<>>
               /\ LET st == LoadRuntimeScan(runtime_manifest_files, find_res)
                  IN /\ op' = [NoOp EXCEPT !.name = "LoadRuntime",
                                           !.files = runtime_manifest_files,
                                           !.find_res = find_res]
                     /\ ret' = [NoRet EXCEPT !.result = st.last_error]
                     /\ log' = st.log
                     /\ instance' = st.instance
                     /\ open_libs' = st.open_libs
                     /\ rt_instances' = st.rt_instances
    /\ UNCHANGED <<XR_KHR_LOADER_INIT_SUPPORT, loader_init_data, live, forgotten, tracked>>
    /\ UNCHANGED <<mergeVars, threadVars>>

LoadRuntime ==
    LoadRuntimeFrom(ManifestLists)

UnloadRuntime ==
    /\ ~crashed
    /\ UNCHANGED crashed
    /\ op' = [NoOp EXCEPT !.name = "UnloadRuntime", !.had_instance = instance # <<>>]
    /\ ret' = NoRet
    /\ IF instance # <<>>
       THEN LET st == ResetInstance([instance |-> instance, open_libs |-> open_libs,
                                     rt_instances |-> rt_instances, log |-> <<>>], <<>>)
            IN /\ instance' = st.instance
               /\ open_libs' = st.open_libs
               /\ rt_instances' = st.rt_instances
               /\ log' = st.log
               /\ live' = {}
               /\ forgotten' = {}
               /\ tracked' = <<>>
       ELSE /\ log' = <<>>
            /\ UNCHANGED <<instance, open_libs, rt_instances, live, forgotten, tracked>>
    /\ UNCHANGED <<XR_KHR_LOADER_INIT_SUPPORT, loader_init_data>>
    /\ UNCHANGED <<mergeVars, threadVars>>

\* InitializeLoader / LoaderInitData::initialize (builds with
\* XR_KHR_LOADER_INIT_SUPPORT only): the payload is checked, then kept.
InitializeLoader ==
    /\ ~crashed
    /\ UNCHANGED crashed
    /\ XR_KHR_LOADER_INIT_SUPPORT
    /\ \E type_ok \in BOOLEAN, applicationVM \in BOOLEAN, applicationContext \in BOOLEAN :
        LET res == IF ~type_ok THEN XR_ERROR_VALIDATION_FAILURE
                   ELSE IF ~applicationVM THEN XR_ERROR_VALIDATION_FAILURE
                   ELSE IF ~applicationContext THEN XR_ERROR_VALIDATION_FAILURE
                   ELSE XR_SUCCESS
        IN /\ op' = [NoOp EXCEPT !.name = "InitializeLoader", !.valid = XR_SUCCEEDED(res)]
           /\ ret' = [NoRet EXCEPT !.result = res]
           /\ loader_init_data' = (loader_init_data \/ XR_SUCCEEDED(res))
    /\ log' = <<>>
    /\ UNCHANGED <<XR_KHR_LOADER_INIT_SUPPORT, instance, open_libs, rt_instances, live, forgotten, tracked>>
    /\ UNCHANGED <<mergeVars, threadVars>>


\* ------------------------------------------------- dispatch-table cache
MapPut(f, k, v) == [x \in DOMAIN f \cup {k} |-> IF x = k THEN v ELSE f[x]]

MapErase(f, k) == [x \in DOMAIN f \ {k} |-> f[x]]

\* A dispatch table: the instance its entries were resolved for.
DispatchTable(inst) == [instance |-> inst]

\* RuntimeInterface::GetDispatchTable on the bound object ri: <<>> is nullptr.
GetDispatchTable(ri, inst) ==
    IF inst \in DOMAIN ri._dispatch_table_map
    THEN <<ri._dispatch_table_map[inst]>>
    ELSE <<>>

\* RuntimeInterface::GetDebugUtilsMessengerDispatchTable on the bound object ri.
GetDebugUtilsMessengerDispatchTable(ri, messenger) ==
    LET runtime_instance ==
            IF messenger \in DOMAIN ri._messenger_to_instance_map
            THEN ri._messenger_to_instance_map[messenger]
            ELSE XR_NULL_HANDLE
    IN GetDispatchTable(ri, runtime_instance)

\* CreateInstance without the test of the runtime's result before the table
\* is stored.
CreateInstanceNoCheck(st, rt_res, rt_inst, populate_ok) ==
    LET out == IF XR_SUCCEEDED(rt_res) THEN rt_inst ELSE XR_NULL_HANDLE
    IN [st EXCEPT
          !.res = rt_res,
          !.out = out,
          !.create_succeeded = TRUE,
          !.rt_instances = IF XR_SUCCEEDED(rt_res) THEN @ \cup {rt_inst} ELSE @,
          !.instance[1]._dispatch_table_map = MapPut(@, out, DispatchTable(out)),
          !.log = @ \o <<Ev("xrCreateInstance", rt_inst, rt_res),
                         Ev("GeneratedXrPopulateDispatchTable", out, "ok")>>]

\* RuntimeInterface::CreateInstance.  The runtime answers rt_res and, on
\* success, the new handle rt_inst; populate_ok says whether the resolver gave
\* every entry of the table (GeneratedXrPopulateDispatchTable returns nothing).
CreateInstance(st, rt_res, rt_inst, populate_ok) ==
    LET called == [st EXCEPT
                     !.res = rt_res,
                     !.out = IF XR_SUCCEEDED(rt_res) THEN rt_inst ELSE XR_NULL_HANDLE,
                     !.create_succeeded = FALSE,
                     !.rt_instances = IF XR_SUCCEEDED(rt_res) THEN @ \cup {rt_inst} ELSE @,
                     !.log = Append(@, Ev("xrCreateInstance", rt_inst, rt_res))]
        stored == IF XR_SUCCEEDED(called.res)
                  THEN [called EXCEPT
                          !.create_succeeded = TRUE,
                          !.instance[1]._dispatch_table_map =
                              MapPut(@, called.out, DispatchTable(called.out)),
                          !.log = @ \o <<Ev("GeneratedXrPopulateDispatchTable", called.out,
                                            IF populate_ok THEN "ok" ELSE "failed")>>
                                    \o (IF called.out \in DOMAIN st.instance[1]._dispatch_table_map
                                        THEN <<Ev("table_release", called.out, "")>> ELSE <<>>)]
                  ELSE called
    IN IF XR_FAILED(stored.res) /\ stored.create_succeeded
       THEN [stored EXCEPT
               !.rt_instances = @ \ {stored.out},
               !.log = Append(@, Ev("xrDestroyInstance", stored.out, "")),
               !.out = XR_NULL_HANDLE]
       ELSE stored

\* DestroyInstance with the erase of the cache entry left out.
DestroyInstanceNoErase(st, inst, resolved) ==
    IF XR_NULL_HANDLE # inst
    THEN IF resolved
         THEN [st EXCEPT
                 !.rt_instances = @ \ {inst},
                 !.log = Append(@, Ev("xrDestroyInstance", inst, "")),
                 !.res = XR_SUCCESS]
         ELSE [st EXCEPT !.crashed = TRUE]
    ELSE [st EXCEPT !.res = XR_SUCCESS]

\* RuntimeInterface::DestroyInstance.  resolved says whether the runtime's
\* resolver set the xrDestroyInstance pointer; the code calls it either way.
DestroyInstance(st, inst, resolved) ==
    IF XR_NULL_HANDLE # inst
    THEN LET erased == IF inst \in DOMAIN st.instance[1]._dispatch_table_map
                       THEN [st EXCEPT
                               !.instance[1]._dispatch_table_map = MapErase(@, inst),
                               !.log = Append(@, Ev("table_release", inst, ""))]
                       ELSE st
         IN IF resolved
            THEN [erased EXCEPT
                    !.rt_instances = @ \ {inst},
                    !.log = Append(@, Ev("xrDestroyInstance", inst, "")),
                    !.res = XR_SUCCESS]
            ELSE [erased EXCEPT !.crashed = TRUE]
    ELSE [st EXCEPT !.res = XR_SUCCESS]

\* TrackDebugMessenger that keeps the instance a messenger already maps to.
TrackDebugMessengerEmplace(ri, inst, messenger) ==
    IF messenger \in DOMAIN ri._messenger_to_instance_map
    THEN ri
    ELSE [ri EXCEPT !._messenger_to_instance_map = MapPut(@, messenger, inst)]

\* RuntimeInterface::TrackDebugMessenger on the bound object ri.
TrackDebugMessenger(ri, inst, messenger) ==
    [ri EXCEPT !._messenger_to_instance_map = MapPut(@, messenger, inst)]

\* ForgetDebugMessenger with the erase left out.
ForgetDebugMessengerKeep(ri, messenger) ==
    ri

\* RuntimeInterface::ForgetDebugMessenger on the bound object ri.
ForgetDebugMessenger(ri, messenger) ==
    IF XR_NULL_HANDLE # messenger
    THEN [ri EXCEPT !._messenger_to_instance_map = MapErase(@, messenger)]
    ELSE ri

\* SupportsExtension whose loop stops after its first entry, match or not.
SupportsExtensionFirstOnly(ri, extension_name) ==
    /\ Len(ri._supported_extensions) > 0
    /\ ri._supported_extensions[1] = extension_name

\* RuntimeInterface::SupportsExtension on the bound object ri.
SupportsExtension(ri, extension_name) ==
    \E k \in 1..Len(ri._supported_extensions) :
        ri._supported_extensions[k] = extension_name

CallState ==
    [instance |-> instance, rt_instances |-> rt_instances, log |-> <<>>,
     res |-> XR_SUCCESS, out |-> XR_NULL_HANDLE, create_succeeded |-> FALSE,
     crashed |-> FALSE]

DoCreateInstance ==
    /\ ~crashed
    /\ instance # <<>>
    /\ \E rt_res \in {XR_SUCCESS, XR_ERROR_RUNTIME_FAILURE},
          rt_inst \in Handles \cup {XR_NULL_HANDLE},
          populate_ok \in BOOLEAN :
        /\ IF XR_SUCCEEDED(rt_res)
           THEN rt_inst \in Handles \ rt_instances
           ELSE rt_inst = XR_NULL_HANDLE /\ populate_ok
        /\ LET st == CreateInstance(CallState, rt_res, rt_inst, populate_ok)
           IN /\ op' = [NoOp EXCEPT !.name = "CreateInstance", !.rt_res = rt_res,
                                    !.inst = rt_inst, !.populate_ok = populate_ok,
                                    !.had_instance = TRUE]
              /\ ret' = [NoRet EXCEPT !.result = st.res, !.inst = st.out]
              /\ instance' = st.instance
              /\ rt_instances' = st.rt_instances
              /\ log' = st.log
              /\ live' = IF XR_SUCCEEDED(st.res) THEN live \cup {st.out} ELSE live
    /\ UNCHANGED <<XR_KHR_LOADER_INIT_SUPPORT, loader_init_data, open_libs, forgotten, tracked, crashed>>
    /\ UNCHANGED <<mergeVars, threadVars>>

DoDestroyInstance ==
    /\ ~crashed
    /\ instance # <<>>
    /\ \E inst \in Handles \cup {XR_NULL_HANDLE}, resolved \in BOOLEAN :
        /\ (inst \in rt_instances \/ inst = XR_NULL_HANDLE) => resolved
        /\ LET st == DestroyInstance(CallState, inst, resolved)
           IN /\ op' = [NoOp EXCEPT !.name = "DestroyInstance", !.inst = inst,
                                    !.resolved = resolved, !.had_instance = TRUE]
              /\ ret' = [NoRet EXCEPT !.result = st.res]
              /\ instance' = st.instance
              /\ rt_instances' = st.rt_instances
              /\ log' = st.log
              /\ crashed' = st.crashed
              /\ live' = live \ {inst}
    /\ UNCHANGED <<XR_KHR_LOADER_INIT_SUPPORT, loader_init_data, open_libs, forgotten, tracked>>
    /\ UNCHANGED <<mergeVars, threadVars>>

DoGetDispatchTable ==
    /\ ~crashed
    /\ instance # <<>>
    /\ \E inst \in Handles \cup {XR_NULL_HANDLE} :
        /\ op' = [NoOp EXCEPT !.name = "GetDispatchTable", !.inst = inst, !.had_instance = TRUE]
        /\ ret' = [NoRet EXCEPT !.table = GetDispatchTable(instance[1], inst)]
    /\ log' = <<>>
    /\ UNCHANGED <<XR_KHR_LOADER_INIT_SUPPORT, loader_init_data, instance, open_libs,
                   rt_instances, live, forgotten, tracked, crashed>>
    /\ UNCHANGED <<mergeVars, threadVars>>

DoGetDebugUtilsMessengerDispatchTable ==
    /\ ~crashed
    /\ instance # <<>>
    /\ \E messenger \in Messengers :
        /\ op' = [NoOp EXCEPT !.name = "GetDebugUtilsMessengerDispatchTable",
                              !.messenger = messenger, !.had_instance = TRUE]
        /\ ret' = [NoRet EXCEPT !.table = GetDebugUtilsMessengerDispatchTable(instance[1], messenger)]
    /\ log' = <<>>
    /\ UNCHANGED <<XR_KHR_LOADER_INIT_SUPPORT, loader_init_data, instance, open_libs,
                   rt_instances, live, forgotten, tracked, crashed>>
    /\ UNCHANGED <<mergeVars, threadVars>>

DoTrackDebugMessengerOf(messengers) ==
    /\ ~crashed
    /\ instance # <<>>
    /\ \E inst \in Handles \cup {XR_NULL_HANDLE}, messenger \in messengers :
        /\ op' = [NoOp EXCEPT !.name = "TrackDebugMessenger", !.inst = inst,
                              !.messenger = messenger, !.had_instance = TRUE]
        /\ instance' = <<TrackDebugMessenger(instance[1], inst, messenger)>>
        /\ forgotten' = forgotten \ {messenger}
        /\ tracked' = MapPut(tracked, messenger, inst)
    /\ ret' = NoRet
    /\ log' = <<>>
    /\ UNCHANGED <<XR_KHR_LOADER_INIT_SUPPORT, loader_init_data, open_libs,
                   rt_instances, live, crashed>>
    /\ UNCHANGED <<mergeVars, threadVars>>

DoTrackDebugMessenger ==
    DoTrackDebugMessengerOf(Messengers)

DoForgetDebugMessengerOf(messengers) ==
    /\ ~crashed
    /\ instance # <<>>
    /\ \E messenger \in messengers :
        /\ op' = [NoOp EXCEPT !.name = "ForgetDebugMessenger",
                              !.messenger = messenger, !.had_instance = TRUE]
        /\ instance' = <<ForgetDebugMessenger(instance[1], messenger)>>
        /\ forgotten' = forgotten \cup {messenger}
        /\ tracked' = MapErase(tracked, messenger)
    /\ ret' = NoRet
    /\ log' = <<>>
    /\ UNCHANGED <<XR_KHR_LOADER_INIT_SUPPORT, loader_init_data, open_libs,
                   rt_instances, live, crashed>>
    /\ UNCHANGED <<mergeVars, threadVars>>

DoForgetDebugMessenger ==
    DoForgetDebugMessengerOf(Messengers)

DoSupportsExtension ==
    /\ ~crashed
    /\ instance # <<>>
    /\ \E extension_name \in ExtNames :
        /\ op' = [NoOp EXCEPT !.name = "SupportsExtension",
                              !.extension_name = extension_name, !.had_instance = TRUE]
        /\ ret' = [NoRet EXCEPT !.found = SupportsExtension(instance[1], extension_name)]
    /\ log' = <<>>
    /\ UNCHANGED <<XR_KHR_LOADER_INIT_SUPPORT, loader_init_data, instance, open_libs,
                   rt_instances, live, forgotten, tracked, crashed>>
    /\ UNCHANGED <<mergeVars, threadVars>>

\* ------------------------------------------- the calls, step by step
\* The calls of several threads on one bound RuntimeInterface.  A step is
\* what a thread does between two points where another thread can see or
\* change what it shares: a call into the runtime, the taking of a mutex, or
\* the work under a mutex up to its release at the end of the scope.
Goto(t, pc) == threads' = [threads EXCEPT ![t].pc = pc]

Return(t) ==
    threads' = [threads EXCEPT ![t].pc = "idle", ![t].inst = XR_NULL_HANDLE,
                               ![t].messenger = XR_NULL_HANDLE]

\* The unique_ptr that owned the table of inst has destroyed it: every pointer
\* to it that a thread still holds dangles from now on.
ReleaseTable(thr, inst) ==
    [u \in DOMAIN thr |->
        IF thr[u].table = <<DispatchTable(inst)>>
        THEN [thr[u] EXCEPT !.released = TRUE]
        ELSE thr[u]]

\* What no step of a thread touches.
ThreadFrame ==
    /\ UNCHANGED <<XR_KHR_LOADER_INIT_SUPPORT, loader_init_data, open_libs,
                   op, ret, log, live, forgotten, tracked, crashed>>
    /\ UNCHANGED mergeVars

\* The one messenger the threads track, forget and look up.
ThreadMessengers == {MaxMessengers}

\* CreateInstance up to the lock: xrCreateInstance in the runtime, which hands
\* out a handle that is not live, then the table is populated.
CreateInstanceCall(t) ==
    /\ instance # <<>>
    /\ threads[t].pc = "idle"
    /\ \E rt_res \in {XR_SUCCESS, XR_ERROR_RUNTIME_FAILURE} :
        IF XR_SUCCEEDED(rt_res)
        THEN \E rt_inst \in Handles \ rt_instances :
                /\ rt_instances' = rt_instances \cup {rt_inst}
                /\ threads' = [threads EXCEPT ![t].pc = "CreateInstance_lock",
                                              ![t].inst = rt_inst]
        ELSE UNCHANGED <<rt_instances, threads>>
    /\ UNCHANGED <<instance, dispatch_table_mutex, messenger_to_instance_mutex>>
    /\ ThreadFrame

CreateInstanceLock(t) ==
    /\ threads[t].pc = "CreateInstance_lock"
    /\ dispatch_table_mutex = NoThread
    /\ dispatch_table_mutex' = t
    /\ Goto(t, "CreateInstance_store")
    /\ UNCHANGED <<instance, rt_instances, messenger_to_instance_mutex>>
    /\ ThreadFrame

\* The store of the table, the end of the lock's scope, and the return: the
\* handle is the caller's from here on.
CreateInstanceStore(t) ==
    /\ threads[t].pc = "CreateInstance_store"
    /\ instance' = [instance EXCEPT ![1]._dispatch_table_map =
                       MapPut(@, threads[t].inst, DispatchTable(threads[t].inst))]
    /\ dispatch_table_mutex' = NoThread
    /\ threads' = [(IF threads[t].inst \in DOMAIN instance[1]._dispatch_table_map
                    THEN ReleaseTable(threads, threads[t].inst)
                    ELSE threads)
                   EXCEPT ![t].pc = "idle", ![t].inst = XR_NULL_HANDLE,
                          ![t].owned = @ \cup {threads[t].inst}]
    /\ UNCHANGED <<rt_instances, messenger_to_instance_mutex>>
    /\ ThreadFrame

\* DestroyInstance of a handle the thread owns: from the call on the handle is
\* no longer the caller's.
DestroyInstanceBegin(t) ==
    /\ instance # <<>>
    /\ threads[t].pc = "idle"
    /\ \E inst \in threads[t].owned :
        threads' = [threads EXCEPT ![t].pc = "DestroyInstance_lock", ![t].inst = inst,
                                   ![t].owned = @ \ {inst}]
    /\ UNCHANGED <<instance, rt_instances, dispatch_table_mutex, messenger_to_instance_mutex>>
    /\ ThreadFrame

DestroyInstanceLock(t) ==
    /\ threads[t].pc = "DestroyInstance_lock"
    /\ dispatch_table_mutex = NoThread
    /\ dispatch_table_mutex' = t
    /\ Goto(t, "DestroyInstance_erase")
    /\ UNCHANGED <<instance, rt_instances, messenger_to_instance_mutex>>
    /\ ThreadFrame

\* The erase under the lock with the erase left out.
DestroyInstanceEraseNothing(t) ==
    /\ threads[t].pc = "DestroyInstance_erase"
    /\ dispatch_table_mutex' = NoThread
    /\ Goto(t, "DestroyInstance_call")
    /\ UNCHANGED <<instance, rt_instances, messenger_to_instance_mutex>>
    /\ ThreadFrame

\* The erase of the cache entry, if there is one, which destroys the table,
\* and the end of the scope.
DestroyInstanceErase(t) ==
    /\ threads[t].pc = "DestroyInstance_erase"
    /\ instance' = [instance EXCEPT ![1]._dispatch_table_map = MapErase(@, threads[t].inst)]
    /\ dispatch_table_mutex' = NoThread
    /\ threads' = [(IF threads[t].inst \in DOMAIN instance[1]._dispatch_table_map
                    THEN ReleaseTable(threads, threads[t].inst)
                    ELSE threads)
                   EXCEPT ![t].pc = "DestroyInstance_call"]
    /\ UNCHANGED <<rt_instances, messenger_to_instance_mutex>>
    /\ ThreadFrame

\* xrDestroyInstance in the runtime, which may hand the handle out again.
DestroyInstanceCall(t) ==
    /\ threads[t].pc = "DestroyInstance_call"
    /\ rt_instances' = rt_instances \ {threads[t].inst}
    /\ Return(t)
    /\ UNCHANGED <<instance, dispatch_table_mutex, messenger_to_instance_mutex>>
    /\ ThreadFrame

GetDispatchTableBegin(t) ==
    /\ instance # <<>>
    /\ threads[t].pc = "idle"
    /\ \E inst \in Handles \cup {XR_NULL_HANDLE} :
        threads' = [threads EXCEPT ![t].pc = "GetDispatchTable_lock", ![t].inst = inst]
    /\ UNCHANGED <<instance, rt_instances, dispatch_table_mutex, messenger_to_instance_mutex>>
    /\ ThreadFrame

GetDispatchTableLock(t) ==
    /\ threads[t].pc = "GetDispatchTable_lock"
    /\ dispatch_table_mutex = NoThread
    /\ dispatch_table_mutex' = t
    /\ Goto(t, "GetDispatchTable_find")
    /\ UNCHANGED <<instance, rt_instances, messenger_to_instance_mutex>>
    /\ ThreadFrame

\* The find under the lock and the return, which releases the lock: the
\* caller gets the raw pointer to the table the cache entry owns, or nullptr.
GetDispatchTableFind(t) ==
    /\ threads[t].pc = "GetDispatchTable_find"
    /\ dispatch_table_mutex' = NoThread
    /\ LET table == GetDispatchTable(instance[1], threads[t].inst)
       IN IF table = <<>>
          THEN Return(t)
          ELSE threads' = [threads EXCEPT ![t].pc = "GetDispatchTable_use",
                                          ![t].inst = XR_NULL_HANDLE,
                                          ![t].messenger = XR_NULL_HANDLE,
                                          ![t].table = table, ![t].released = FALSE]
    /\ UNCHANGED <<instance, rt_instances, messenger_to_instance_mutex>>
    /\ ThreadFrame

\* The caller dispatches through the table it was given and lets go of it.
UseDispatchTable(t) ==
    /\ threads[t].pc = "GetDispatchTable_use"
    /\ threads' = [threads EXCEPT ![t] = [IdleThread EXCEPT !.owned = threads[t].owned]]
    /\ UNCHANGED <<instance, rt_instances, dispatch_table_mutex, messenger_to_instance_mutex>>
    /\ ThreadFrame

\* UnloadRuntime by a thread while no other thread is inside a call on the
\* RuntimeInterface: the object goes, with its tables and its library, and
\* with the runtime the instances the threads owned.
ThreadUnloadRuntime(t) ==
    /\ instance # <<>>
    /\ threads[t].pc = "idle"
    /\ \A u \in Threads : threads[u].pc \in {"idle", "GetDispatchTable_use"}
    /\ LET st == ResetInstance([instance |-> instance, open_libs |-> open_libs,
                                rt_instances |-> rt_instances, log |-> <<>>], <<>>)
       IN /\ instance' = st.instance
          /\ open_libs' = st.open_libs
          /\ rt_instances' = st.rt_instances
    /\ threads' = [u \in Threads |->
                      [threads[u] EXCEPT !.owned = {},
                                         !.released = (threads[u].table # <<>>)]]
    /\ UNCHANGED <<XR_KHR_LOADER_INIT_SUPPORT, loader_init_data,
                   op, ret, log, live, forgotten, tracked, crashed>>
    /\ UNCHANGED <<dispatch_table_mutex, messenger_to_instance_mutex>>
    /\ UNCHANGED mergeVars

GetDebugUtilsMessengerDispatchTableBegin(t) ==
    /\ instance # <<>>
    /\ threads[t].pc = "idle"
    /\ \E messenger \in ThreadMessengers \cup {XR_NULL_HANDLE} :
        threads' = [threads EXCEPT ![t].pc = "GetDebugUtilsMessengerDispatchTable_lock",
                                   ![t].messenger = messenger]
    /\ UNCHANGED <<instance, rt_instances, dispatch_table_mutex, messenger_to_instance_mutex>>
    /\ ThreadFrame

GetDebugUtilsMessengerDispatchTableLock(t) ==
    /\ threads[t].pc = "GetDebugUtilsMessengerDispatchTable_lock"
    /\ messenger_to_instance_mutex = NoThread
    /\ messenger_to_instance_mutex' = t
    /\ Goto(t, "GetDebugUtilsMessengerDispatchTable_find")
    /\ UNCHANGED <<instance, rt_instances, dispatch_table_mutex>>
    /\ ThreadFrame

\* The find that keeps the registry's mutex through the call of
\* GetDispatchTable.
GetDebugUtilsMessengerDispatchTableFindKeepLock(t) ==
    /\ threads[t].pc = "GetDebugUtilsMessengerDispatchTable_find"
    /\ threads' = [threads EXCEPT
                     ![t].pc = "GetDispatchTable_lock",
                     ![t].inst = IF threads[t].messenger \in DOMAIN instance[1]._messenger_to_instance_map
                                 THEN instance[1]._messenger_to_instance_map[threads[t].messenger]
                                 ELSE XR_NULL_HANDLE]
    /\ UNCHANGED <<instance, rt_instances, dispatch_table_mutex, messenger_to_instance_mutex>>
    /\ ThreadFrame

\* The find of the messenger's instance under the registry's mutex, the end
\* of the scope, and the call of GetDispatchTable with what was found.
GetDebugUtilsMessengerDispatchTableFind(t) ==
    /\ threads[t].pc = "GetDebugUtilsMessengerDispatchTable_find"
    /\ messenger_to_instance_mutex' = NoThread
    /\ threads' = [threads EXCEPT
                     ![t].pc = "GetDispatchTable_lock",
                     ![t].inst = IF threads[t].messenger \in DOMAIN instance[1]._messenger_to_instance_map
                                 THEN instance[1]._messenger_to_instance_map[threads[t].messenger]
                                 ELSE XR_NULL_HANDLE]
    /\ UNCHANGED <<instance, rt_instances, dispatch_table_mutex>>
    /\ ThreadFrame

TrackDebugMessengerBegin(t) ==
    /\ instance # <<>>
    /\ threads[t].pc = "idle"
    /\ \E inst \in Handles \cup {XR_NULL_HANDLE}, messenger \in ThreadMessengers :
        threads' = [threads EXCEPT ![t].pc = "TrackDebugMessenger_lock", ![t].inst = inst,
                                   ![t].messenger = messenger]
    /\ UNCHANGED <<instance, rt_instances, dispatch_table_mutex, messenger_to_instance_mutex>>
    /\ ThreadFrame

TrackDebugMessengerLock(t) ==
    /\ threads[t].pc = "TrackDebugMessenger_lock"
    /\ messenger_to_instance_mutex = NoThread
    /\ messenger_to_instance_mutex' = t
    /\ Goto(t, "TrackDebugMessenger_store")
    /\ UNCHANGED <<instance, rt_instances, dispatch_table_mutex>>
    /\ ThreadFrame

TrackDebugMessengerStore(t) ==
    /\ threads[t].pc = "TrackDebugMessenger_store"
    /\ instance' = <<TrackDebugMessenger(instance[1], threads[t].inst, threads[t].messenger)>>
    /\ messenger_to_instance_mutex' = NoThread
    /\ Return(t)
    /\ UNCHANGED <<rt_instances, dispatch_table_mutex>>
    /\ ThreadFrame

\* ForgetDebugMessenger of a messenger that is not null (of the null handle it
\* returns at once).
ForgetDebugMessengerBegin(t) ==
    /\ instance # <<>>
    /\ threads[t].pc = "idle"
    /\ \E messenger \in ThreadMessengers \ {XR_NULL_HANDLE} :
        threads' = [threads EXCEPT ![t].pc = "ForgetDebugMessenger_lock",
                                   ![t].messenger = messenger]
    /\ UNCHANGED <<instance, rt_instances, dispatch_table_mutex, messenger_to_instance_mutex>>
    /\ ThreadFrame

ForgetDebugMessengerLock(t) ==
    /\ threads[t].pc = "ForgetDebugMessenger_lock"
    /\ messenger_to_instance_mutex = NoThread
    /\ messenger_to_instance_mutex' = t
    /\ Goto(t, "ForgetDebugMessenger_erase")
    /\ UNCHANGED <<instance, rt_instances, dispatch_table_mutex>>
    /\ ThreadFrame

ForgetDebugMessengerErase(t) ==
    /\ threads[t].pc = "ForgetDebugMessenger_erase"
    /\ instance' = <<ForgetDebugMessenger(instance[1], threads[t].messenger)>>
    /\ messenger_to_instance_mutex' = NoThread
    /\ Return(t)
    /\ UNCHANGED <<rt_instances, dispatch_table_mutex>>
    /\ ThreadFrame

\* ---------------------------------------------------------- specifications
InitLoader ==
    /\ XR_KHR_LOADER_INIT_SUPPORT \in BOOLEAN
    /\ loader_init_data = FALSE
    /\ instance = <<>>
    /\ open_libs = {}
    /\ rt_instances = {}
    /\ op = NoOp
    /\ ret = NoRet
    /\ log = <<>>
    /\ live = {}
    /\ forgotten = {}
    /\ tracked = <<>>
    /\ crashed = FALSE
    /\ threads = [t \in Threads |-> IdleThread]
    /\ dispatch_table_mutex = NoThread
    /\ messenger_to_instance_mutex = NoThread

InitMergeIdle ==
    /\ ext_in = <<>>
    /\ ext_rt = <<>>
    /\ ext_out = <<>>
    /\ ext_done = FALSE

Init ==
    /\ InitLoader
    /\ InitMergeIdle

Next ==
    \/ LoadRuntime
    \/ UnloadRuntime
    \/ InitializeLoader
    \/ DoCreateInstance
    \/ DoDestroyInstance

\* The runtime lifecycle: scans over every list of candidates, teardown, and
\* the instances a teardown may find.
Spec == Init /\ [][Next]_vars

CacheLoadRuntime ==
    LoadRuntimeFrom(CacheLists)

NextCache ==
    \/ CacheLoadRuntime
    \/ UnloadRuntime
    \/ InitializeLoader
    \/ DoCreateInstance
    \/ DoDestroyInstance
    \/ DoGetDispatchTable
    \/ DoGetDebugUtilsMessengerDispatchTable
    \/ DoTrackDebugMessenger
    \/ DoForgetDebugMessenger

\* The dispatch-table cache and the messenger registry of a bound runtime.
SpecCache == Init /\ [][NextCache]_vars

GateLoadRuntime ==
    LoadRuntimeFrom(GateLists)

NextGate ==
    \/ GateLoadRuntime
    \/ UnloadRuntime
    \/ InitializeLoader

\* The negotiation: scans over every response a runtime can give.
SpecGate == Init /\ [][NextGate]_vars

ExtLoadRuntime ==
    LoadRuntimeFrom(ExtLists)

\* The one messenger of the extension specification.
ExtMessengers == {MaxMessengers}

ExtTrackDebugMessenger ==
    DoTrackDebugMessengerOf(ExtMessengers)

ExtForgetDebugMessenger ==
    DoForgetDebugMessengerOf(ExtMessengers)

NextExt ==
    \/ ExtLoadRuntime
    \/ UnloadRuntime
    \/ InitializeLoader
    \/ DoCreateInstance
    \/ DoDestroyInstance
    \/ ExtTrackDebugMessenger
    \/ ExtForgetDebugMessenger
    \/ DoSupportsExtension

\* The supported extensions of the bound runtime under every other call.
SpecExt == Init /\ [][NextExt]_vars

\* One RuntimeInterface bound by a load, and threads that call into it.
InitThreads ==
    /\ XR_KHR_LOADER_INIT_SUPPORT = FALSE
    /\ loader_init_data = FALSE
    /\ instance = <<NewRuntimeInterface(1, 1)>>
    /\ open_libs = {1}
    /\ rt_instances = {}
    /\ op = NoOp
    /\ ret = NoRet
    /\ log = <<>>
    /\ live = {}
    /\ forgotten = {}
    /\ tracked = <<>>
    /\ crashed = FALSE
    /\ threads = [t \in Threads |-> IdleThread]
    /\ dispatch_table_mutex = NoThread
    /\ messenger_to_instance_mutex = NoThread
    /\ InitMergeIdle

\* The steps of a call that take a mutex.
LockStep(t) ==
    \/ CreateInstanceLock(t)
    \/ DestroyInstanceLock(t)
    \/ GetDispatchTableLock(t)
    \/ GetDebugUtilsMessengerDispatchTableLock(t)
    \/ TrackDebugMessengerLock(t)
    \/ ForgetDebugMessengerLock(t)

\* The steps of a call under way that wait for nothing.
RunStep(t) ==
    \/ CreateInstanceStore(t)
    \/ DestroyInstanceErase(t)
    \/ DestroyInstanceCall(t)
    \/ GetDispatchTableFind(t)
    \/ UseDispatchTable(t)
    \/ GetDebugUtilsMessengerDispatchTableFind(t)
    \/ TrackDebugMessengerStore(t)
    \/ ForgetDebugMessengerErase(t)

NextThreads ==
    \E t \in Threads :
        \/ CreateInstanceCall(t)
        \/ DestroyInstanceBegin(t)
        \/ GetDispatchTableBegin(t)
        \/ GetDebugUtilsMessengerDispatchTableBegin(t)
        \/ TrackDebugMessengerBegin(t)
        \/ ForgetDebugMessengerBegin(t)
        \/ LockStep(t)
        \/ RunStep(t)

\* Threads calling into the bound RuntimeInterface, in every interleaving.
SpecThreads == InitThreads /\ [][NextThreads]_vars

\* The same, where a thread inside a call keeps running, the runtime returns
\* from every call, and a thread waiting for a mutex that is released again
\* and again gets it.
SpecThreadsFair ==
    /\ SpecThreads
    /\ \A t \in Threads : WF_vars(RunStep(t)) /\ SF_vars(LockStep(t))

NextTables ==
    \/ NextThreads
    \/ \E t \in Threads : ThreadUnloadRuntime(t)

\* The threads, and an UnloadRuntime that a thread may call between the calls
\* of the others.
SpecTables == InitThreads /\ [][NextTables]_vars

\* The extension merge on its own: every pair of lists, merged once.
InitMerge ==
    /\ InitLoader
    /\ XR_KHR_LOADER_INIT_SUPPORT = FALSE
    /\ ext_in \in SeqsUpTo(ExtProps, MaxExt)
    /\ ext_rt \in SeqsUpTo(ExtProps, MaxExt)
    /\ ext_out = <<>>
    /\ ext_done = FALSE

MergeExtensions ==
    /\ ~ext_done
    /\ ext_out' = GetInstanceExtensionProperties(ext_in, ext_rt)
    /\ ext_done' = TRUE
    /\ UNCHANGED <<ext_in, ext_rt>>
    /\ UNCHANGED loaderVars
    /\ UNCHANGED threadVars

NextMerge ==
    MergeExtensions

SpecMerge == InitMerge /\ [][NextMerge]_vars


\* ------------------------------------------------------------- properties
\* The last call was a LoadRuntime that scanned (it found no RuntimeInterface
\* bound and, where the build needs it, the loader initialized).
Scanned == op.name = "LoadRuntime" /\ log # <<>>

Cache == instance[1]._dispatch_table_map

Registry == instance[1]._messenger_to_instance_map

\* A negotiation response the loader may use, in the words of the version gate.
GateOK(info) ==
    /\ info.getInstanceProcAddr
    /\ info.runtimeInterfaceVersion \in 1..XR_CURRENT_LOADER_RUNTIME_VERSION
    /\ info.runtimeApiVersion.major = XR_CURRENT_API_MAJOR
    /\ ~(info.runtimeApiVersion.major = 0 /\ info.runtimeApiVersion.minor = 0)

\* The candidate passes the pre-negotiation init call (or the build has none).
InitPasses(c) ==
    XR_KHR_LOADER_INIT_SUPPORT /\ c.initialize # "absent" => c.initialize = XR_SUCCESS

\* The candidate's negotiation function exists and answers with a success code.
Responds(c) == c.open /\ InitPasses(c) /\ c.has_negotiate /\ c.negotiate_res = XR_SUCCESS

\* The candidate's library opens and its negotiation is accepted.
Acceptable(c) == Responds(c) /\ GateOK(c.runtime_info)

AcceptablePositions == {i \in DOMAIN op.files : Acceptable(op.files[i])}

Min(S) == CHOOSE x \in S : \A y \in S : x <= y

\* C1 (as claimed): when a scanning LoadRuntime returns, the bound backend is
\* the first candidate in manifest order whose library opens and whose
\* negotiation is accepted, also when a later candidate would be accepted too.
FirstMatchWins ==
    Scanned =>
        IF AcceptablePositions = {}
        THEN instance = <<>>
        ELSE /\ instance # <<>>
             /\ instance[1]._runtime_library = Min(AcceptablePositions)

\* C2 (as claimed): once a candidate has been bound during a scan, no later
\* candidate of the list is opened or negotiated with.
ScanStopsAtFirstBinding ==
    Scanned =>
        \A i, j \in DOMAIN op.files :
            (i < j /\ CountOf(log, "new RuntimeInterface", i) > 0) =>
                /\ CountOf(log, "LibraryOpen", j) = 0
                /\ CountOf(log, "negotiate", j) = 0

\* The result a candidate that opened is turned down with at negotiation.
RejectionCode(c) ==
    IF ~c.has_negotiate THEN XR_ERROR_RUNTIME_FAILURE
    ELSE IF c.negotiate_res # XR_SUCCESS THEN c.negotiate_res
    ELSE XR_ERROR_FILE_CONTENTS_INVALID

\* C3 (as claimed): a scan that binds nothing returns InstanceLost when every
\* library failed to open, and a negotiation rejection code (not InstanceLost)
\* when a library opened and every negotiation was rejected.
AggregateLoadError ==
    (Scanned /\ op.find_res = XR_SUCCESS /\ instance = <<>>) =>
        LET opened == {i \in DOMAIN op.files : op.files[i].open}
        IN /\ opened = {} => ret.result = XR_ERROR_INSTANCE_LOST
           /\ (opened # {} /\ \A i \in opened : InitPasses(op.files[i])) =>
                 /\ ret.result # XR_ERROR_INSTANCE_LOST
                 /\ ret.result \in {RejectionCode(op.files[i]) : i \in opened}


\* C4: on a bound RuntimeInterface, GetDispatchTable(h) is non-null exactly
\* for the handles a successful CreateInstance returned and no DestroyInstance
\* was given since; never-created and destroyed handles yield null.
CacheConsistency ==
    instance # <<>> =>
        \A h \in Handles \cup {XR_NULL_HANDLE} :
            (GetDispatchTable(instance[1], h) # <<>>) <=> (h \in live)

\* A DestroyInstance on a handle that had no cache entry (never created, or
\* destroyed before) while another instance is live.
CacheConsistencyWitness ==
    /\ instance # <<>>
    /\ op.name = "DestroyInstance"
    /\ op.inst # XR_NULL_HANDLE
    /\ Count(log, "table_release") = 0
    /\ live # {}

\* C5 (as claimed): when the table population fails after the runtime created
\* the instance, CreateInstance calls the runtime's destroy entry point once on
\* the new handle, returns a failure and a null handle and leaves no cache
\* entry; and no instance the runtime holds is without a cache entry once
\* CreateInstance has returned.
RollbackOnPopulateFailure ==
    /\ (instance # <<>> /\ op.name = "CreateInstance"
        /\ op.rt_res = XR_SUCCESS /\ ~op.populate_ok) =>
            /\ CountOf(log, "xrDestroyInstance", op.inst) = 1
            /\ ret.inst = XR_NULL_HANDLE
            /\ XR_FAILED(ret.result)
            /\ op.inst \notin DOMAIN Cache
    /\ instance # <<>> => \A h \in rt_instances : h \in DOMAIN Cache

\* C6 (as claimed): after ForgetDebugMessenger(m), and until m is tracked
\* again, the lookup of m returns null, for every handle m, null included.
MessengerOrphanLookupAnyHandle ==
    instance # <<>> =>
        \A m \in forgotten : GetDebugUtilsMessengerDispatchTable(instance[1], m) = <<>>

\* C6 (amended): after ForgetDebugMessenger(m) with m not the null handle, and
\* until m is tracked again, the lookup of m returns null, whatever instances
\* were created, destroyed or tracked in between.
MessengerOrphanLookup ==
    instance # <<>> =>
        \A m \in forgotten \ {XR_NULL_HANDLE} :
            GetDebugUtilsMessengerDispatchTable(instance[1], m) = <<>>

\* A non-null messenger has just been forgotten while dispatch tables exist
\* and another messenger is still tracked to an instance that has a table.
MessengerOrphanLookupWitness ==
    /\ instance # <<>>
    /\ op.name = "ForgetDebugMessenger"
    /\ op.messenger # XR_NULL_HANDLE
    /\ op.messenger \in forgotten
    /\ \E m \in DOMAIN Registry : Registry[m] \in DOMAIN Cache


\* C7: every candidate whose negotiation answered with a success code is
\* accepted (a RuntimeInterface is constructed on it) exactly when the getter
\* is non-null, the interface version lies in 1..XR_CURRENT_LOADER_RUNTIME_VERSION
\* and the API major version is the loader's (and the version is not 0.0);
\* every other one is turned down with XR_ERROR_FILE_CONTENTS_INVALID, its
\* library is closed and no RuntimeInterface is constructed on it.
VersionGate ==
    Scanned =>
        \A i \in DOMAIN op.files :
            Responds(op.files[i]) =>
                IF GateOK(op.files[i].runtime_info)
                THEN /\ CountOf(log, "new RuntimeInterface", i) = 1
                     /\ CountOf(log, "skip", i) = 0
                ELSE /\ CountOf(log, "new RuntimeInterface", i) = 0
                     /\ \E k \in Positions(log, "skip", i) :
                            log[k].res = XR_ERROR_FILE_CONTENTS_INVALID
                     /\ CountOf(log, "LibraryClose", i) = 1
                     /\ i \notin open_libs
                     /\ (instance # <<>> => instance[1]._runtime_library # i)

\* A scan met a response with API major version 2, one with interface
\* version 0 and none else wrong, and bound a runtime after turning one down.
VersionGateWitness ==
    /\ Scanned
    /\ instance # <<>>
    /\ \E i \in DOMAIN op.files :
          /\ Responds(op.files[i])
          /\ op.files[i].runtime_info.getInstanceProcAddr
          /\ op.files[i].runtime_info.runtimeInterfaceVersion = 1
          /\ op.files[i].runtime_info.runtimeApiVersion.major = 2
          /\ CountOf(log, "skip", i) = 1

\* C8 (as claimed): a LoadRuntime that finds a RuntimeInterface bound returns
\* success, touches no collaborator and changes nothing; and two consecutive
\* loads, the first of which binds a backend, construct exactly one
\* RuntimeInterface.
IdempotentLoad ==
    [][ /\ (op'.name = "LoadRuntime" /\ instance # <<>>) =>
              /\ ret'.result = XR_SUCCESS
              /\ log' = <<>>
              /\ instance' = instance
              /\ open_libs' = open_libs
              /\ rt_instances' = rt_instances
        /\ (op.name = "LoadRuntime" /\ instance # <<>> /\ op'.name = "LoadRuntime") =>
              Count(log, "new RuntimeInterface") + Count(log', "new RuntimeInterface") = 1
      ]_vars

\* What the extension merge is claimed to produce: the candidate entries in
\* their order, with the runtime's version where updated(k) says so and
\* untouched elsewhere, then the runtime's entries whose name no candidate
\* entry carries, in the runtime's order.
Reported(name) == {j \in DOMAIN ext_rt : ext_rt[j].extensionName = name}

RuntimeOnly ==
    LET CandidateNames == {ext_in[k].extensionName : k \in DOMAIN ext_in}
        Fresh(e) == e.extensionName \notin CandidateNames
    IN SelectSeq(ext_rt, Fresh)

FirstOfItsName(k) == \A l \in 1..(k - 1) : ext_in[l].extensionName # ext_in[k].extensionName

\* C9 (as claimed): the candidate list keeps its order, every candidate entry
\* whose name the runtime reports gets the runtime's version, the others are
\* untouched, and the runtime-only entries follow in the runtime's order.
ExtensionMergeEveryEntry ==
    ext_done =>
        /\ Len(ext_out) = Len(ext_in) + Len(RuntimeOnly)
        /\ \A k \in DOMAIN ext_in :
              /\ ext_out[k].extensionName = ext_in[k].extensionName
              /\ IF Reported(ext_in[k].extensionName) # {}
                 THEN \E j \in Reported(ext_in[k].extensionName) :
                         ext_out[k].extensionVersion = ext_rt[j].extensionVersion
                 ELSE ext_out[k] = ext_in[k]
        /\ SubSeq(ext_out, Len(ext_in) + 1, Len(ext_out)) = RuntimeOnly

\* C9 (amended): the candidate list keeps its order; the first candidate entry
\* of each name the runtime reports gets the version of the runtime's last
\* entry of that name; every other candidate entry (a name the runtime does
\* not report, or a repetition of an earlier name) is untouched; and one record
\* per runtime entry whose name is not in the candidate list follows, in the
\* runtime's order.
ExtensionMerge ==
    ext_done =>
        /\ Len(ext_out) = Len(ext_in) + Len(RuntimeOnly)
        /\ \A k \in DOMAIN ext_in :
              /\ ext_out[k].extensionName = ext_in[k].extensionName
              /\ IF Reported(ext_in[k].extensionName) # {} /\ FirstOfItsName(k)
                 THEN LET last == CHOOSE j \in Reported(ext_in[k].extensionName) :
                                      \A j2 \in Reported(ext_in[k].extensionName) : j2 <= j
                      IN ext_out[k].extensionVersion = ext_rt[last].extensionVersion
                 ELSE ext_out[k] = ext_in[k]
        /\ SubSeq(ext_out, Len(ext_in) + 1, Len(ext_out)) = RuntimeOnly

\* The merge of [{A,1},{B,1}] with the runtime's [{B,2},{C,1}] has run.
ExtensionMergeWitness ==
    /\ ext_done
    /\ ext_in = <<[extensionName |-> "A", extensionVersion |-> 1],
                  [extensionName |-> "B", extensionVersion |-> 1]>>
    /\ ext_rt = <<[extensionName |-> "B", extensionVersion |-> 2],
                  [extensionName |-> "C", extensionVersion |-> 1]>>
    /\ ext_out = <<[extensionName |-> "A", extensionVersion |-> 1],
                   [extensionName |-> "B", extensionVersion |-> 2],
                   [extensionName |-> "C", extensionVersion |-> 1]>>

\* What an UnloadRuntime step does, with or without a RuntimeInterface bound.
TeardownStep ==
    op'.name = "UnloadRuntime" =>
        IF instance # <<>>
        THEN /\ instance' = <<>>
             /\ open_libs' = {}
             /\ Count(log', "LibraryClose") = 1
             /\ CountOf(log', "LibraryClose", instance[1]._runtime_library) = 1
             /\ \A h \in DOMAIN Cache :
                   /\ CountOf(log', "table_release", h) = 1
                   /\ \A k \in Positions(log', "table_release", h) :
                         \A c \in Positions(log', "LibraryClose", instance[1]._runtime_library) :
                            k < c
             /\ Count(log', "xrDestroyInstance") = 0
        ELSE /\ instance' = instance
             /\ open_libs' = open_libs
             /\ rt_instances' = rt_instances
             /\ loader_init_data' = loader_init_data
             /\ log' = <<>>

FreshScan == log' # <<>> /\ log'[1].ev = "FindManifestFiles"

\* C10 (as claimed): UnloadRuntime on a bound RuntimeInterface leaves none,
\* releases every dispatch table before it closes the library, closes it once
\* and calls no xrDestroyInstance; without a RuntimeInterface it changes
\* nothing; and a LoadRuntime after an UnloadRuntime scans afresh.
ForcedTeardownAlwaysRescans ==
    [][ /\ TeardownStep
        /\ (op.name = "UnloadRuntime" /\ op'.name = "LoadRuntime") => FreshScan
      ]_vars

\* C10 (amended): as claimed, but the LoadRuntime after an UnloadRuntime scans
\* afresh provided the build needs no xrInitializeLoaderKHR or it has
\* succeeded (else LoadRuntime returns InitializationFailed without a scan).
ForcedTeardown ==
    [][ /\ TeardownStep
        /\ (op.name = "UnloadRuntime" /\ op'.name = "LoadRuntime"
            /\ (XR_KHR_LOADER_INIT_SUPPORT => loader_init_data)) => FreshScan
      ]_vars

\* An UnloadRuntime has just torn down a RuntimeInterface whose instances were
\* never destroyed: their tables were released, then the library was closed.
ForcedTeardownWitness ==
    /\ op.name = "UnloadRuntime"
    /\ op.had_instance
    /\ instance = <<>>
    /\ Count(log, "table_release") = MaxHandles
    /\ open_libs = {}

\* C12 (as claimed): every DestroyInstance(h) erases the cache entry of h if
\* there is one, then calls the runtime's xrDestroyInstance exactly once
\* whether or not there was an entry, and returns XR_SUCCESS; a DestroyInstance
\* of a handle that is not in the cache leaves cache and registry as they were.
DestroyIsIdempotent ==
    [][ op'.name = "DestroyInstance" /\ ~crashed =>
          /\ ~crashed'
          /\ ret'.result = XR_SUCCESS
          /\ op'.inst \notin DOMAIN Cache'
          /\ CountOf(log', "xrDestroyInstance", op'.inst) = 1
          /\ Count(log', "xrDestroyInstance") = 1
          /\ \A k \in Positions(log', "table_release", op'.inst) :
                \A d \in Positions(log', "xrDestroyInstance", op'.inst) : k < d
          /\ op'.inst \notin DOMAIN Cache => Cache' = Cache /\ Registry' = Registry
      ]_vars

\* The scan's locals after the first k candidates of the last LoadRuntime.
ScanPrefix(k) ==
    ScanFrom([instance |-> <<>>, open_libs |-> {}, rt_instances |-> {},
              any_loaded |-> FALSE, last_error |-> op.find_res, log |-> <<>>],
             SubSeq(op.files, 1, k), 1)

\* C13 (as claimed): in a scan, a candidate that is rejected after a backend
\* was bound leaves last_error alone, every candidate is attempted whatever
\* the earlier ones did, and so a LoadRuntime that returns with a backend
\* bound returns XR_SUCCESS.
LastErrorDiscipline ==
    Scanned /\ XR_SUCCEEDED(op.find_res) =>
        /\ \A k \in DOMAIN op.files :
              /\ CountOf(log, "LibraryOpen", k) = 1
              /\ ScanPrefix(k - 1).any_loaded /\ ~Acceptable(op.files[k]) =>
                    ScanPrefix(k).last_error = ScanPrefix(k - 1).last_error
        /\ instance # <<>> => ret.result = XR_SUCCESS

\* C14 (as claimed): a LoadRuntime that returns a failure leaves no
\* RuntimeInterface and no library open, and the LoadRuntime after it
\* enumerates the manifests again and attempts every candidate, in order.
FailedLoadIsRetryable ==
    [][ /\ op'.name = "LoadRuntime" /\ XR_FAILED(ret'.result) =>
              instance' = <<>> /\ open_libs' = {}
        /\ op.name = "LoadRuntime" /\ XR_FAILED(ret.result) /\ op'.name = "LoadRuntime" =>
              /\ FreshScan
              /\ \A k \in DOMAIN op'.files : CountOf(log', "LibraryOpen", k) = 1
              /\ \A j, k \in DOMAIN op'.files :
                    j < k => \A a \in Positions(log', "LibraryOpen", j) :
                                \A b \in Positions(log', "LibraryOpen", k) : a < b
      ]_vars

\* The library handle the bound RuntimeInterface owns, if one is bound.
OwnedLibraries ==
    IF instance # <<>> THEN {instance[1]._runtime_library} ELSE {}

\* C15: after every call the open library handles are exactly the handle of
\* the bound RuntimeInterface; in a scan every library that opened is closed
\* once unless it is the bound one, which is not closed: a rejected one before
\* the next candidate is opened, a replaced one when its RuntimeInterface is
\* replaced; and an UnloadRuntime of a RuntimeInterface closes one library.
LibraryOwnership ==
    /\ open_libs = OwnedLibraries
    /\ Scanned =>
          \A k \in DOMAIN op.files :
             LET opens == {a \in Positions(log, "LibraryOpen", k) : log[a].res = "ok"}
                 closes == Positions(log, "LibraryClose", k)
                 made == Positions(log, "new RuntimeInterface", k)
                 later == {b \in DOMAIN log : log[b].ev = "LibraryOpen" /\ log[b].arg > k}
                 replaced == {b \in DOMAIN log : log[b].ev = "new RuntimeInterface" /\ log[b].arg > k}
             IN /\ Cardinality(opens) <= 1
                /\ Cardinality(closes) = IF opens # {} /\ k \notin OwnedLibraries THEN 1 ELSE 0
                /\ \A c \in closes :
                      /\ \A a \in opens : a < c
                      /\ IF made = {}
                         THEN \A b \in later : c < b
                         ELSE \E b \in replaced : b < c
    /\ op.name = "UnloadRuntime" =>
          Count(log, "LibraryClose") = IF op.had_instance THEN 1 ELSE 0

\* A scan has bound every candidate in turn: it has closed the library of each
\* RuntimeInterface it replaced and keeps the library of the last one.
LibraryOwnershipWitness ==
    /\ Scanned
    /\ Count(log, "new RuntimeInterface") = MaxCandidates
    /\ \A k \in 1..(MaxCandidates - 1) : CountOf(log, "LibraryClose", k) = 1
    /\ open_libs = {MaxCandidates}
    /\ OwnedLibraries = {MaxCandidates}

\* C19 (as claimed): a LoadRuntime whose manifest enumeration fails attempts
\* no candidate, binds no RuntimeInterface and returns
\* XR_ERROR_FILE_ACCESS_ERROR.
EnumerationFailure ==
    Scanned /\ XR_FAILED(op.find_res) =>
        /\ Count(log, "LibraryOpen") = 0
        /\ Count(log, "negotiate") = 0
        /\ Count(log, "new RuntimeInterface") = 0
        /\ instance = <<>>
        /\ ret.result = XR_ERROR_FILE_ACCESS_ERROR

\* C17: a CreateInstance whose xrCreateInstance fails returns the runtime's
\* code, calls no xrDestroyInstance and leaves the cache, the registry, the
\* RuntimeInterface, its library and the runtime's instances as they were; a
\* CreateInstance after it whose xrCreateInstance succeeds returns XR_SUCCESS
\* and caches the table of the new handle.
FailedCreateChangesNothing ==
    [][ /\ op'.name = "CreateInstance" /\ XR_FAILED(op'.rt_res) =>
              /\ ret'.result = op'.rt_res
              /\ ret'.inst = XR_NULL_HANDLE
              /\ Count(log', "xrDestroyInstance") = 0
              /\ Count(log', "GeneratedXrPopulateDispatchTable") = 0
              /\ instance' = instance
              /\ open_libs' = open_libs
              /\ rt_instances' = rt_instances
        /\ op.name = "CreateInstance" /\ XR_FAILED(ret.result)
           /\ op'.name = "CreateInstance" /\ XR_SUCCEEDED(op'.rt_res) =>
              /\ ret'.result = XR_SUCCESS
              /\ ret'.inst # XR_NULL_HANDLE
              /\ GetDispatchTable(instance'[1], ret'.inst) = <<DispatchTable(ret'.inst)>>
      ]_vars

\* A CreateInstance has just failed in the runtime on a RuntimeInterface that
\* holds a cached table and a tracked messenger.
FailedCreateChangesNothingWitness ==
    /\ op.name = "CreateInstance"
    /\ XR_FAILED(ret.result)
    /\ ret.result = op.rt_res
    /\ instance # <<>>
    /\ DOMAIN Cache # {}
    /\ DOMAIN Registry # {}
    /\ rt_instances # {}

\* CreateInstance and DestroyInstance leave the registry alone,
\* TrackDebugMessenger and ForgetDebugMessenger leave the cache alone.
MapsAreIndependent ==
    /\ op'.name \in {"CreateInstance", "DestroyInstance"} => Registry' = Registry
    /\ op'.name \in {"TrackDebugMessenger", "ForgetDebugMessenger"} => Cache' = Cache

\* C16 (as claimed): the two maps are independent, and so the lookup of a
\* messenger m is always GetDispatchTable of the instance last tracked for m
\* and not forgotten since (null when there is none), also when that instance
\* was created after the TrackDebugMessenger.
MessengerLookupComposesAnyHandle ==
    [][ /\ MapsAreIndependent
        /\ instance' # <<>> =>
              \A m \in Messengers :
                 GetDebugUtilsMessengerDispatchTable(instance'[1], m) =
                    IF m \in DOMAIN tracked'
                    THEN GetDispatchTable(instance'[1], tracked'[m])
                    ELSE <<>>
      ]_vars

\* C16 (amended): as claimed for every messenger but the null handle; the
\* null handle, once tracked, stays registered through ForgetDebugMessenger,
\* and after one its lookup follows the instance the registry holds for it.
MessengerLookupComposes ==
    [][ /\ MapsAreIndependent
        /\ instance' # <<>> =>
              \A m \in Messengers :
                 GetDebugUtilsMessengerDispatchTable(instance'[1], m) =
                    IF m \in DOMAIN tracked'
                    THEN GetDispatchTable(instance'[1], tracked'[m])
                    ELSE IF m = XR_NULL_HANDLE /\ m \in forgotten' /\ m \in DOMAIN Registry'
                    THEN GetDispatchTable(instance'[1], Registry'[m])
                    ELSE <<>>
      ]_vars

\* A CreateInstance has just returned the handle a non-null messenger was
\* tracked for earlier, and the lookup of the messenger gives the new table.
MessengerLookupComposesWitness ==
    /\ instance # <<>>
    /\ op.name = "CreateInstance"
    /\ XR_SUCCEEDED(ret.result)
    /\ \E m \in DOMAIN tracked :
          /\ m # XR_NULL_HANDLE
          /\ tracked[m] = ret.inst
          /\ GetDebugUtilsMessengerDispatchTable(instance[1], m) = <<DispatchTable(ret.inst)>>

\* The names the runtime bound by the last scan reported when it was loaded.
ReportedAtLoad(ri, files) ==
    {files[ri._runtime_library].exts[k].extensionName :
        k \in DOMAIN files[ri._runtime_library].exts}

\* C18: when a scanning LoadRuntime returns XR_SUCCESS, SupportsExtension of
\* a name is true exactly when the runtime that is bound reported that name;
\* and CreateInstance, DestroyInstance, TrackDebugMessenger,
\* ForgetDebugMessenger, SupportsExtension and a LoadRuntime on a bound
\* RuntimeInterface leave every answer as it was.
SupportedExtensionsAreFixed ==
    [][ /\ op'.name = "LoadRuntime" /\ log' # <<>> /\ XR_SUCCEEDED(ret'.result) =>
              /\ instance' # <<>>
              /\ \A name \in ExtNames :
                    SupportsExtension(instance'[1], name)
                       <=> name \in ReportedAtLoad(instance'[1], op'.files)
        /\ instance # <<>>
           /\ op'.name \in {"CreateInstance", "DestroyInstance", "TrackDebugMessenger",
                            "ForgetDebugMessenger", "SupportsExtension", "LoadRuntime"} =>
              /\ instance' # <<>>
              /\ \A name \in ExtNames :
                    SupportsExtension(instance'[1], name) <=> SupportsExtension(instance[1], name)
      ]_vars

\* A scan has bound the candidate at its last position, a runtime that
\* reports A and B, and after a CreateInstance and a TrackDebugMessenger the
\* answers are still A and B and nothing else.
SupportedExtensionsAreFixedWitness ==
    /\ instance # <<>>
    /\ op.name = "TrackDebugMessenger"
    /\ live # {}
    /\ instance[1]._runtime_library = MaxCandidates
    /\ SupportsExtension(instance[1], "A")
    /\ SupportsExtension(instance[1], "B")
    /\ ~SupportsExtension(instance[1], "C")

\* The thread is inside a call, or has not yet used the table a lookup gave it.
Busy(t) == threads[t].pc # "idle"

\* The thread waits for a mutex.
Waiting(t) ==
    threads[t].pc \in {"CreateInstance_lock", "DestroyInstance_lock", "GetDispatchTable_lock",
                       "GetDebugUtilsMessengerDispatchTable_lock",
                       "TrackDebugMessenger_lock", "ForgetDebugMessenger_lock"}

\* No thread holds both mutexes, and no thread waits for a mutex while it
\* holds one.
MutexesAreNeverNested ==
    \A t \in Threads :
        /\ ~(dispatch_table_mutex = t /\ messenger_to_instance_mutex = t)
        /\ (dispatch_table_mutex = t \/ messenger_to_instance_mutex = t) => ~Waiting(t)

CacheKeysAreLive ==
    /\ DOMAIN Cache \subseteq rt_instances
    /\ \A t \in Threads :
          /\ threads[t].pc \in {"CreateInstance_lock", "CreateInstance_store"} =>
                threads[t].inst \in rt_instances
          /\ threads[t].pc = "DestroyInstance_call" =>
                threads[t].inst \notin DOMAIN Cache /\ threads[t].inst \in rt_instances
          /\ threads[t].pc \in {"DestroyInstance_lock", "DestroyInstance_erase"} =>
                \A u \in Threads \ {t} :
                   /\ threads[t].inst \notin threads[u].owned
                   /\ ~(/\ threads[u].pc \in {"CreateInstance_lock", "CreateInstance_store"}
                        /\ threads[u].inst = threads[t].inst)

\* One thread has erased the entry of its handle and is about to call
\* xrDestroyInstance while the other is about to store the table of a handle
\* the runtime has just given it; every other handle is cached.
CacheKeysAreLiveWitness ==
    \E t, u \in Threads :
        /\ t # u
        /\ threads[t].pc = "DestroyInstance_call"
        /\ threads[u].pc = "CreateInstance_store"
        /\ threads[t].inst # threads[u].inst
        /\ rt_instances = DOMAIN Cache \cup {threads[t].inst, threads[u].inst}

\* The thread is about to dispatch through the table a lookup gave it.
UsesTable(t) == threads[t].pc = "GetDispatchTable_use"

\* C21 (as claimed): every table of the cache is the one of its key and of no
\* other, and a thread that uses the table GetDispatchTable gave it never
\* uses a destroyed one: the table is still the cache's entry of its handle,
\* whatever DestroyInstance and UnloadRuntime calls other threads have made
\* since the lookup let go of the mutex.
TableLifetime ==
    /\ instance # <<>> =>
          \A h \in DOMAIN Cache : Cache[h] = DispatchTable(h) /\ h # XR_NULL_HANDLE
    /\ \A t \in Threads :
          UsesTable(t) =>
             /\ ~threads[t].released
             /\ instance # <<>>
             /\ GetDispatchTable(instance[1], threads[t].table[1].instance) = threads[t].table

====
